---- MODULE Spec2Model ----
(***************************************************************************)
(* Model of the feedback post router (postRouter: list, unreadCount, byId, *)
(* add, setRead) and of the store tables it reads and writes (Post,        *)
(* Comment, ReadPosts).                                                    *)
(*                                                                         *)
(* Conventions.  Post identifiers are 1, 2, ... in creation order; an      *)
(* identifier above Len(posts) references no post.  An optional input      *)
(* (limit, cursor) and the optional nextCursor are sequences of length 0   *)
(* (absent) or 1 (present).  createdAt is the value of a clock that        *)
(* strictly grows with every created post.  Titles and contents are not    *)
(* modelled: no handler branches on them.                                  *)
(***************************************************************************)
EXTENDS Integers, Sequences, FiniteSets, Bags, TLC

VARIABLES
    posts,      \* the Post table: a sequence of rows in creation order
    comments,   \* the Comment table: rows [postId, authorId], oldest first
    readPosts,  \* the ReadPosts table: a bag of rows [userId, postId]
    inflight,   \* setRead requests whose upsert has looked up and not yet written
    counting,   \* unreadCount requests between their first and second count
    resp,       \* what the step just taken returned to its caller
    trav        \* a client's traversal of list pages by cursor

vars == <<posts, comments, readPosts, inflight, counting, resp, trav>>

(* ------------------------------ bounds --------------------------------- *)

\* Posts created.
MaxPosts == 3

\* Comments created.
MaxComments == 1

\* setRead requests in flight at once.
MaxInflight == 2

\* The largest limit a list call is given.
MaxLimit == 3

(* --------------------------- program constants ------------------------- *)

DefaultLimit == 50

Users == {"u1", "u2"}

UserName == [u \in Users |-> IF u = "u1" THEN "Alice" ELSE "Bob"]

UserImage == [u \in Users |-> IF u = "u1" THEN "alice.png" ELSE "bob.png"]

Null == "null"

Filters == {"all", "draft", "unread", "replied", "repliedByMe", "unreplied", "unrepliedByMe"}

Orders == {"asc", "desc"}

(* ------------------------------ inputs --------------------------------- *)

Absent == <<>>

PostIds == 1..MaxPosts

LimitInputs == {Absent} \cup {<<n>> : n \in 1..MaxLimit}

CursorInputs == {Absent} \cup {<<i>> : i \in PostIds}

(* --------------------------- sequence helpers -------------------------- *)

Reverse(s) == [i \in 1..Len(s) |-> s[Len(s) + 1 - i]]

Take(s, n) == SubSeq(s, 1, IF n < Len(s) THEN n ELSE Len(s))

Range(s) == {s[i] : i \in DOMAIN s}

RECURSIVE Flatten(_)
Flatten(ss) == IF ss = <<>> THEN <<>> ELSE Head(ss) \o Flatten(Tail(ss))

(* ------------------------------ the store ------------------------------ *)

PostExists(id) == id \in 1..Len(posts)

MarkerRow(u, id) == [userId |-> u, postId |-> id]

HasMarker(rows, u, id) == BagIn(MarkerRow(u, id), rows)

ReadersOf(id) == {u \in Users : HasMarker(readPosts, u, id)}

CommentsOf(id) == SelectSeq(comments, LAMBDA c : c.postId = id)

Init ==
    /\ posts = <<>>
    /\ comments = <<>>
    /\ readPosts = EmptyBag
    /\ inflight = EmptyBag
    /\ counting = EmptyBag
    /\ resp = [op |-> "none"]
    /\ trav = [status |-> "idle"]

(* ------------------------- record projections -------------------------- *)

AuthorOf(p) == [name |-> UserName[p.authorId], image |-> UserImage[p.authorId]]

(* defaultPostSelect: the fields of a post that add returns. *)
defaultPostSelect(p) ==
    [ id        |-> p.id,
      createdAt |-> p.createdAt,
      anonymous |-> p.anonymous,
      authorId  |-> p.authorId,
      author    |-> AuthorOf(p),
      readBy    |-> {[id |-> u, name |-> UserName[u]] : u \in ReadersOf(p.id)},
      count     |-> Len(CommentsOf(p.id)) ]

(* withCommentsPostSelect: defaultPostSelect plus the comments, oldest first. *)
withCommentsPostSelect(p) ==
    LET cs == CommentsOf(p.id)
    IN [ id        |-> p.id,
         createdAt |-> p.createdAt,
         anonymous |-> p.anonymous,
         authorId  |-> p.authorId,
         author    |-> AuthorOf(p),
         readBy    |-> {[id |-> u, name |-> UserName[u]] : u \in ReadersOf(p.id)},
         count     |-> Len(cs),
         comments  |-> [i \in DOMAIN cs |->
                          [author |-> [id    |-> cs[i].authorId,
                                       name  |-> UserName[cs[i].authorId],
                                       image |-> UserImage[cs[i].authorId]]]] ]

(* lodash keyBy(readBy, 'user.id'): a mapping from user id to the entry. *)
keyBy(entries) ==
    [k \in {e.id : e \in entries} |-> CHOOSE e \in entries : e.id = k]

(* ------------------------- processFeedbackItem ------------------------- *)

(* Mutant: the name is replaced but the avatar image is kept. *)
processFeedbackItemKeepsImage(item, sessionUserId) ==
    LET rest == [f \in (DOMAIN item) \ {"authorId"} |-> item[f]]
        author == IF item.anonymous
                  THEN [name  |-> IF item.authorId = sessionUserId
                                  THEN "Anonymous" \o " (you)" ELSE "Anonymous",
                        image |-> item.author.image]
                  ELSE item.author
    IN [rest EXCEPT !.author = author, !.readBy = keyBy(item.readBy)]

processFeedbackItem(item, sessionUserId) ==
    LET rest == [f \in (DOMAIN item) \ {"authorId"} |-> item[f]]
        author == IF item.anonymous
                  THEN [name  |-> IF item.authorId = sessionUserId
                                  THEN "Anonymous" \o " (you)" ELSE "Anonymous",
                        image |-> Null]
                  ELSE item.author
    IN [rest EXCEPT !.author = author, !.readBy = keyBy(item.readBy)]

(* -------------------------- getFilterWhereClause ----------------------- *)

(* Mutant: unrepliedByMe built like unreplied (comments: none {}). *)
getFilterWhereClauseNoneAtAll(filter, userId, p) ==
    CASE filter = "all"           -> TRUE
      [] filter = "draft"         -> p.published = FALSE
      [] filter = "unread"        -> ~HasMarker(readPosts, userId, p.id)
      [] filter = "replied"       -> \E i \in DOMAIN comments : comments[i].postId = p.id
      [] filter = "repliedByMe"   -> \E i \in DOMAIN comments :
                                        comments[i].postId = p.id /\ comments[i].authorId = userId
      [] filter = "unreplied"     -> ~\E i \in DOMAIN comments : comments[i].postId = p.id
      [] filter = "unrepliedByMe" -> ~\E i \in DOMAIN comments : comments[i].postId = p.id

(* The where clause of a filter, evaluated on post p for the session user. *)
getFilterWhereClause(filter, userId, p) ==
    CASE filter = "all"           -> TRUE
      [] filter = "draft"         -> p.published = FALSE
      [] filter = "unread"        -> ~HasMarker(readPosts, userId, p.id)
      [] filter = "replied"       -> \E i \in DOMAIN comments : comments[i].postId = p.id
      [] filter = "repliedByMe"   -> \E i \in DOMAIN comments :
                                        comments[i].postId = p.id /\ comments[i].authorId = userId
      [] filter = "unreplied"     -> ~\E i \in DOMAIN comments : comments[i].postId = p.id
      [] filter = "unrepliedByMe" -> ~\E i \in DOMAIN comments :
                                        comments[i].postId = p.id /\ comments[i].authorId = userId

(* ------------------------------ findMany ------------------------------- *)

(* orderBy: { createdAt: order } over a set of rows. *)
RECURSIVE OrderByCreatedAt(_, _)
OrderByCreatedAt(rows, order) ==
    IF rows = {} THEN <<>>
    ELSE LET first == CHOOSE r \in rows : \A q \in rows :
                         IF order = "asc" THEN r.createdAt <= q.createdAt
                                          ELSE r.createdAt >= q.createdAt
         IN <<first>> \o OrderByCreatedAt(rows \ {first}, order)

(* Mutant: the cursor comparison ignores the sort direction. *)
FromCursorAscOnly(order, c, r) == r.createdAt >= c.createdAt

(* A row r is at or after the cursor row c in the requested order: the store
   starts the page AT the cursor row (no skip is given). *)
FromCursor(order, c, r) ==
    IF order = "asc" THEN r.createdAt >= c.createdAt ELSE r.createdAt <= c.createdAt

(* Mutant: the page starts after the cursor row (skip: 1). *)
findManySkipsCursor(filter, userId, order, cursorOpt, take) ==
    LET matching == {posts[i] : i \in {j \in DOMAIN posts :
                                         getFilterWhereClause(filter, userId, posts[j])}}
        window == IF cursorOpt = Absent THEN matching
                  ELSE IF ~PostExists(cursorOpt[1]) THEN {}
                  ELSE {r \in matching : /\ FromCursor(order, posts[cursorOpt[1]], r)
                                         /\ r.id # cursorOpt[1]}
    IN Take(OrderByCreatedAt(window, order), take)

(* prisma.post.findMany({ take, cursor, orderBy: { createdAt }, where }) *)
findMany(filter, userId, order, cursorOpt, take) ==
    LET matching == {posts[i] : i \in {j \in DOMAIN posts :
                                         getFilterWhereClause(filter, userId, posts[j])}}
        window == IF cursorOpt = Absent THEN matching
                  ELSE IF ~PostExists(cursorOpt[1]) THEN {}
                  ELSE {r \in matching : FromCursor(order, posts[cursorOpt[1]], r)}
    IN Take(OrderByCreatedAt(window, order), take)

(* ------------------------------- list ---------------------------------- *)

EffectiveLimit(limitOpt) == IF limitOpt = Absent THEN DefaultLimit ELSE limitOpt[1]

(* Mutant: the cursor is the last item kept, not the extra item fetched. *)
NextCursorOfLastKept(items, limit) ==
    IF Len(items) > limit THEN <<items[limit].id>> ELSE Absent

NextCursorOf(items, limit) ==
    IF Len(items) > limit THEN <<items[Len(items)].id>> ELSE Absent

(* Mutant: the extra item is not removed. *)
PopExtraKeepsAll(items, limit) == items

(* items.pop() when more than limit items were fetched. *)
PopExtra(items, limit) ==
    IF Len(items) > limit THEN SubSeq(items, 1, Len(items) - 1) ELSE items

(* What list makes of the records its one query fetched: the extra record
   is removed and named as nextCursor, the rest are processed and reversed. *)
PageOf(fetched, limit, userId) ==
    [ items      |-> Reverse([i \in DOMAIN PopExtra(fetched, limit) |->
                                processFeedbackItem(
                                    withCommentsPostSelect(PopExtra(fetched, limit)[i]), userId)]),
      nextCursor |-> NextCursorOf(fetched, limit) ]

(* The value a list call returns, computed on the current store. *)
ListResult(userId, filter, order, limitOpt, cursorOpt) ==
    CHOOSE r \in {PageOf(fetched, EffectiveLimit(limitOpt), userId) :
                    fetched \in {findMany(filter, userId, order, cursorOpt,
                                          EffectiveLimit(limitOpt) + 1)}} : TRUE

(* ------------------------- readPosts.upsert ---------------------------- *)

ReadCountOf(rows, u) ==
    LET mine == {r \in BagToSet(rows) : r.userId = u}
        RECURSIVE Sum(_)
        Sum(S) == IF S = {} THEN 0
                  ELSE LET r == CHOOSE x \in S : TRUE
                       IN CopiesIn(r, rows) + Sum(S \ {r})
    IN Sum(mine)

(* Mutant: the create branch inserts although the pair has a row by now. *)
upsertWriteNoUniqueKey(rows, u, id, found) ==
    IF found
    THEN [rows |-> rows, ok |-> TRUE, error |-> "none"]
    ELSE IF ~PostExists(id)
    THEN [rows |-> rows, ok |-> FALSE, error |-> "RecordToConnectNotFound"]
    ELSE [rows |-> rows (+) SetToBag({MarkerRow(u, id)}), ok |-> TRUE, error |-> "none"]

(* Mutant: the create branch does not require the post to exist. *)
upsertWriteNoConnectCheck(rows, u, id, found) ==
    IF found
    THEN [rows |-> rows, ok |-> TRUE, error |-> "none"]
    ELSE IF HasMarker(rows, u, id)
    THEN [rows |-> rows, ok |-> FALSE, error |-> "UniqueConstraint"]
    ELSE [rows |-> rows (+) SetToBag({MarkerRow(u, id)}), ok |-> TRUE, error |-> "none"]

(* The write half of readPosts.upsert, given what its lookup by the compound
   key postId_userId found: update {} when the row was found, otherwise a
   create that connects the user and the post.  The create fails when the
   post does not exist, and when the compound key has a row by now. *)
upsertWrite(rows, u, id, found) ==
    IF found
    THEN [rows |-> rows, ok |-> TRUE, error |-> "none"]
    ELSE IF ~PostExists(id)
    THEN [rows |-> rows, ok |-> FALSE, error |-> "RecordToConnectNotFound"]
    ELSE IF HasMarker(rows, u, id)
    THEN [rows |-> rows, ok |-> FALSE, error |-> "UniqueConstraint"]
    ELSE [rows |-> rows (+) SetToBag({MarkerRow(u, id)}), ok |-> TRUE, error |-> "none"]

(* ------------------------------ actions -------------------------------- *)

NoResp == [op |-> "none"]

(* resp is what the step just taken returned to its caller; a step that
   returns nothing leaves NoResp.  The fields seen, found and before of a
   response are not part of the returned value: they record what the handler
   read, for the properties below. *)

(* postRouter.add *)
Add(u, anonymous) ==
    /\ Len(posts) < MaxPosts
    /\ LET p == [ id        |-> Len(posts) + 1,
                  authorId  |-> u,
                  anonymous |-> anonymous,
                  published |-> TRUE,
                  hidden    |-> FALSE,
                  createdAt |-> Len(posts) + 1 ]
       IN /\ posts' = Append(posts, p)
          /\ resp' = [op |-> "add", user |-> u, post |-> defaultPostSelect(p)]
    /\ UNCHANGED <<comments, readPosts, inflight, counting, trav>>

(* The store's published and hidden columns are written outside the router. *)
SetFlags(id, published, hidden) ==
    /\ PostExists(id)
    /\ <<posts[id].published, posts[id].hidden>> # <<published, hidden>>
    /\ posts' = [posts EXCEPT ![id].published = published, ![id].hidden = hidden]
    /\ resp' = NoResp
    /\ UNCHANGED <<comments, readPosts, inflight, counting, trav>>

(* A comment is created by a user against an existing post. *)
AddComment(u, id) ==
    /\ PostExists(id)
    /\ Len(comments) < MaxComments
    /\ comments' = Append(comments, [postId |-> id, authorId |-> u])
    /\ resp' = NoResp
    /\ UNCHANGED <<posts, readPosts, inflight, counting, trav>>

(* postRouter.list *)
List(u, filter, order, limitOpt, cursorOpt) ==
    /\ \E r \in {ListResult(u, filter, order, limitOpt, cursorOpt)} :
          resp' = [ op     |-> "list",  user  |-> u,        filter |-> filter,
                    order  |-> order,   limit |-> limitOpt, cursor |-> cursorOpt,
                    items  |-> r.items, nextCursor |-> r.nextCursor ]
    /\ UNCHANGED <<posts, comments, readPosts, inflight, counting, trav>>

(* postRouter.byId *)
ById(u, id) ==
    /\ resp' = IF ~PostExists(id)
               THEN [op |-> "byId", user |-> u, id |-> id, ok |-> FALSE, error |-> "NOT_FOUND"]
               ELSE [op |-> "byId", user |-> u, id |-> id, ok |-> TRUE,
                     post |-> processFeedbackItem(withCommentsPostSelect(posts[id]), u)]
    /\ UNCHANGED <<posts, comments, readPosts, inflight, counting, trav>>

(* postRouter.setRead, first half: the upsert looks the compound key up. *)
SetReadLookup(u, id) ==
    /\ BagCardinality(inflight) < MaxInflight
    /\ inflight' = inflight (+) SetToBag({[userId |-> u, postId |-> id,
                                           found |-> HasMarker(readPosts, u, id)]})
    /\ resp' = NoResp
    /\ UNCHANGED <<posts, comments, readPosts, counting, trav>>

(* postRouter.setRead, second half: the upsert updates or creates, and the
   handler returns the row or fails with the store's error. *)
SetReadWrite(req) ==
    /\ BagIn(req, inflight)
    /\ inflight' = inflight (-) SetToBag({req})
    /\ LET w == upsertWrite(readPosts, req.userId, req.postId, req.found)
       IN /\ readPosts' = w.rows
          /\ resp' = [ op |-> "setRead", user |-> req.userId, id |-> req.postId,
                       ok |-> w.ok, error |-> w.error,
                       found |-> req.found, before |-> readPosts ]
    /\ UNCHANGED <<posts, comments, counting, trav>>

(* postRouter.setRead with no other request between its lookup and its write. *)
SetRead(u, id) ==
    /\ LET found == HasMarker(readPosts, u, id)
           w     == upsertWrite(readPosts, u, id, found)
       IN /\ readPosts' = w.rows
          /\ resp' = [ op |-> "setRead", user |-> u, id |-> id,
                       ok |-> w.ok, error |-> w.error,
                       found |-> found, before |-> readPosts ]
    /\ UNCHANGED <<posts, comments, inflight, counting, trav>>

(* Mutant: the result is clamped at zero. *)
UnreadOfClamped(visible, readCount) ==
    IF visible - readCount < 0 THEN 0 ELSE visible - readCount

(* allVisiblePostsCount - readCount *)
UnreadOf(visible, readCount) == visible - readCount

VisibleCount == Cardinality({i \in DOMAIN posts : posts[i].hidden = FALSE})

(* postRouter.unreadCount, first query: readPosts.count({ userId }). *)
UnreadCountRead(u) ==
    /\ BagCardinality(counting) < MaxInflight
    /\ counting' = counting (+) SetToBag({[userId |-> u,
                                           readCount |-> ReadCountOf(readPosts, u)]})
    /\ resp' = NoResp
    /\ UNCHANGED <<posts, comments, readPosts, inflight, trav>>

(* postRouter.unreadCount, second query: post.count({ hidden: false }), and
   the return. *)
UnreadCountReturn(c) ==
    /\ BagIn(c, counting)
    /\ counting' = counting (-) SetToBag({c})
    /\ resp' = [ op |-> "unreadCount", user |-> c.userId,
                 unreadCount |-> UnreadOf(VisibleCount, c.readCount),
                 totalCount  |-> VisibleCount,
                 seen        |-> c.readCount ]
    /\ UNCHANGED <<posts, comments, readPosts, inflight, trav>>

(* ------------------------- cursor traversal ---------------------------- *)

ItemIds(items) == [i \in DOMAIN items |-> items[i].id]

(* A client starts a traversal: list without a cursor.  initial and sizes are
   not client state: they record the posts that existed at the first call and
   the number of posts at each call, for the properties below. *)
TravStart(u, filter, order, limitOpt) ==
    /\ trav.status = "idle"
    /\ \E r \in {ListResult(u, filter, order, limitOpt, Absent)} :
          trav' = [ status  |-> IF r.nextCursor = Absent THEN "done" ELSE "running",
                    user    |-> u,  filter |-> filter,  order |-> order,
                    limit   |-> limitOpt,
                    cursor  |-> r.nextCursor,
                    pages   |-> <<ItemIds(r.items)>>,
                    initial |-> DOMAIN posts,
                    sizes   |-> <<Len(posts)>> ]
    /\ resp' = NoResp
    /\ UNCHANGED <<posts, comments, readPosts, inflight, counting>>

(* The client feeds the last response's nextCursor back as the cursor. *)
TravNext ==
    /\ trav.status = "running"
    /\ \E r \in {ListResult(trav.user, trav.filter, trav.order, trav.limit, trav.cursor)} :
          trav' = [trav EXCEPT
                     !.status = IF r.nextCursor = Absent THEN "done" ELSE "running",
                     !.cursor = r.nextCursor,
                     !.pages  = Append(@, ItemIds(r.items)),
                     !.sizes  = Append(@, Len(posts))]
    /\ resp' = NoResp
    /\ UNCHANGED <<posts, comments, readPosts, inflight, counting>>

(* The client drops a finished traversal. *)
TravFinish ==
    /\ trav.status = "done"
    /\ trav' = [status |-> "idle"]
    /\ resp' = NoResp
    /\ UNCHANGED <<posts, comments, readPosts, inflight, counting>>

(* --------------------------- specifications ---------------------------- *)

\* Posts created where comments, markers and flags vary as well.
MaxSmallStore == 2

\* Posts created where setRead requests interleave.
MaxUpsertPosts == 1

\* unreadCount requests in flight at once.
MaxCounting == 1

(* The response of a step is handed to its caller. *)
Deliver ==
    /\ resp # NoResp
    /\ resp' = NoResp
    /\ UNCHANGED <<posts, comments, readPosts, inflight, counting, trav>>

(* No response is waiting to be handed over. *)
Idle == resp = NoResp

(* The whole router over the whole store. *)
Next ==
    \/ \E u \in Users, a \in BOOLEAN : Add(u, a)
    \/ \E id \in PostIds, pub \in BOOLEAN, hid \in BOOLEAN : SetFlags(id, pub, hid)
    \/ \E u \in Users, id \in PostIds : AddComment(u, id)
    \/ \E u \in Users, f \in Filters, o \in Orders, l \in LimitInputs, c \in CursorInputs :
          List(u, f, o, l, c)
    \/ \E u \in Users, id \in PostIds : ById(u, id)
    \/ \E u \in Users, id \in PostIds : SetReadLookup(u, id)
    \/ \E req \in BagToSet(inflight) : SetReadWrite(req)
    \/ \E u \in Users, id \in PostIds : SetRead(u, id)
    \/ \E u \in Users : UnreadCountRead(u)
    \/ \E c \in BagToSet(counting) : UnreadCountReturn(c)
    \/ \E u \in Users, f \in Filters, o \in Orders, l \in LimitInputs : TravStart(u, f, o, l)
    \/ TravNext
    \/ TravFinish
    \/ Deliver

Spec == Init /\ [][Next]_vars

(* The specifications below are the parts of Spec the properties are checked
   under: each keeps the operations its properties are about and draws their
   inputs from the sets named in it.  In each, a step is taken once the
   response of the step before it has been handed over. *)

(* Anonymization: posts of both users, anonymous or not, read back by both. *)
NextAnonymity ==
    \/ Idle /\ \E u \in Users, a \in BOOLEAN : Add(u, a)
    \/ Idle /\ \E u \in Users, o \in Orders : List(u, "all", o, Absent, Absent)
    \/ Idle /\ \E u \in Users, id \in PostIds : ById(u, id)
    \/ Deliver

SpecAnonymity == Init /\ [][NextAnonymity]_vars

(* Filters: drafts, comments and read markers of both users. *)
NextFilter ==
    \/ Idle /\ Len(posts) < MaxSmallStore /\ Add("u1", FALSE)
    \/ Idle /\ \E id \in PostIds, pub \in BOOLEAN : SetFlags(id, pub, FALSE)
    \/ Idle /\ \E u \in Users, id \in PostIds : AddComment(u, id)
    \/ Idle /\ \E u \in Users, id \in PostIds : SetRead(u, id)
    \/ Idle /\ \E u \in Users, f \in Filters : List(u, f, "desc", Absent, Absent)
    \/ Deliver

SpecFilter == Init /\ [][NextFilter]_vars

(* setRead requests of both users in flight at once, and byId. *)
NextUpsert ==
    \/ Idle /\ Len(posts) < MaxUpsertPosts /\ Add("u1", FALSE)
    \/ Idle /\ \E u \in Users, id \in 1..(MaxUpsertPosts + 1) : SetReadLookup(u, id)
    \/ Idle /\ \E req \in BagToSet(inflight) : SetReadWrite(req)
    \/ Idle /\ \E u \in Users, id \in 1..(MaxUpsertPosts + 1) : ById(u, id)
    \/ Deliver

SpecUpsert == Init /\ [][NextUpsert]_vars

(* unreadCount, with posts hidden and markers written between its queries. *)
NextCount ==
    \/ Idle /\ Len(posts) < MaxSmallStore /\ Add("u1", FALSE)
    \/ Idle /\ \E id \in PostIds, hid \in BOOLEAN : SetFlags(id, TRUE, hid)
    \/ Idle /\ \E u \in Users, id \in PostIds : SetRead(u, id)
    \/ Idle /\ \E u \in Users : BagCardinality(counting) < MaxCounting /\ UnreadCountRead(u)
    \/ Idle /\ \E c \in BagToSet(counting) : UnreadCountReturn(c)
    \/ Deliver

SpecCount == Init /\ [][NextCount]_vars

(* Single list calls with every limit and cursor. *)
NextPage ==
    \/ Idle /\ Add("u1", FALSE)
    \/ Idle /\ \E id \in PostIds, pub \in BOOLEAN : SetFlags(id, pub, FALSE)
    \/ Idle /\ \E u \in Users, f \in {"all", "draft"}, o \in Orders,
                  l \in LimitInputs, c \in CursorInputs : List(u, f, o, l, c)
    \/ Deliver

SpecPage == Init /\ [][NextPage]_vars

(* Traversals of a fixed set of posts, some of them drafts, some commented by
   u2: the store changes only between traversals. *)
NextFixedSet ==
    \/ Idle /\ trav.status = "idle" /\ Add("u1", FALSE)
    \/ Idle /\ trav.status = "idle" /\ \E id \in PostIds, pub \in BOOLEAN : SetFlags(id, pub, FALSE)
    \/ Idle /\ trav.status = "idle" /\ \E id \in PostIds : AddComment("u2", id)
    \/ Idle /\ \E u \in Users, f \in Filters, o \in Orders, l \in LimitInputs : TravStart(u, f, o, l)
    \/ TravNext
    \/ TravFinish
    \/ Deliver

SpecFixedSet == Init /\ [][NextFixedSet]_vars

(* Traversals of a fixed set of posts, some of them drafts. *)
NextTermination ==
    \/ Idle /\ trav.status = "idle" /\ Add("u1", FALSE)
    \/ Idle /\ trav.status = "idle" /\ \E id \in PostIds, pub \in BOOLEAN : SetFlags(id, pub, FALSE)
    \/ Idle /\ \E u \in Users, f \in Filters, o \in Orders, l \in LimitInputs : TravStart(u, f, o, l)
    \/ TravNext
    \/ TravFinish
    \/ Deliver

(* A client that holds a nextCursor asks for the next page, and a response is
   handed over. *)
FairTermination ==
    Init /\ [][NextTermination]_vars /\ WF_vars(TravNext) /\ WF_vars(Deliver)

(* Traversals with filter all while posts are added. *)
NextLive ==
    \/ Idle /\ \E u \in Users : Add(u, FALSE)
    \/ Idle /\ \E u \in Users, o \in Orders, l \in LimitInputs : TravStart(u, "all", o, l)
    \/ TravNext
    \/ TravFinish
    \/ Deliver

SpecLive == Init /\ [][NextLive]_vars

(* ------------------------------ properties ----------------------------- *)

StoredAuthor(id) == posts[id].authorId

MarkersOf(u) == {r \in BagToSet(readPosts) : r.userId = u}

(* The predicate each filter stands for, for user u and the post with this id. *)
Matches(filter, u, id) ==
    LET commenters == {comments[i].authorId : i \in {j \in DOMAIN comments : comments[j].postId = id}}
    IN CASE filter = "all"           -> TRUE
         [] filter = "draft"         -> ~posts[id].published
         [] filter = "unread"        -> MarkerRow(u, id) \notin MarkersOf(u)
         [] filter = "replied"       -> commenters # {}
         [] filter = "repliedByMe"   -> u \in commenters
         [] filter = "unreplied"     -> commenters = {}
         [] filter = "unrepliedByMe" -> u \notin commenters

NoDuplicates(s) == \A i, j \in DOMAIN s : s[i] = s[j] => i = j

(* The author fields a viewer may see of the post with this id. *)
ExpectedAuthor(id, viewer) ==
    IF ~posts[id].anonymous
    THEN [name |-> UserName[StoredAuthor(id)], image |-> UserImage[StoredAuthor(id)]]
    ELSE IF StoredAuthor(id) = viewer
    THEN [name |-> "Anonymous (you)", image |-> Null]
    ELSE [name |-> "Anonymous", image |-> Null]

(* The Post records of the response of the step just taken. *)
ReturnedPosts ==
    CASE resp.op = "list"             -> Range(resp.items)
      [] resp.op = "byId" /\ resp.ok  -> {resp.post}
      [] resp.op = "add"              -> {resp.post}
      [] OTHER                        -> {}

(* C1: every Post record that list, byId or add returns with anonymous = TRUE
   carries the placeholder name ("Anonymous", or "Anonymous (you)" for the
   session user's own post) and a null image, never the author's name or
   image. *)
C1_AnonymousNeverRevealed ==
    \A rec \in ReturnedPosts :
        rec.anonymous =>
            /\ rec.author.image = Null
            /\ rec.author.name = IF StoredAuthor(rec.id) = resp.user
                                 THEN "Anonymous (you)" ELSE "Anonymous"

(* C2: the author fields of every record list and byId return equal the
   reference: the stored name and image for a post that is not anonymous,
   "Anonymous" and null for another user's anonymous post, "Anonymous (you)"
   and null for the viewer's own anonymous post. *)
C2_AuthorFields ==
    resp.op \in {"list", "byId"} =>
        \A rec \in ReturnedPosts : rec.author = ExpectedAuthor(rec.id, resp.user)

C2_Witness ==
    /\ resp.op = "list"
    /\ \E a, b, c \in Range(resp.items) :
          /\ a.anonymous /\ StoredAuthor(a.id) = resp.user
          /\ b.anonymous /\ StoredAuthor(b.id) # resp.user
          /\ ~c.anonymous /\ StoredAuthor(c.id) # resp.user

(* The items of one list call by the traversal's user with its filter and
   order, no cursor and the given limit. *)
SingleCall(limitOpt) ==
    ItemIds(ListResult(trav.user, trav.filter, trav.order, limitOpt, Absent).items)

MatchingIds == {i \in DOMAIN posts : Matches(trav.filter, trav.user, i)}

(* The limits that are at least the number of matching posts. *)
CoveringLimits ==
    LET m == Cardinality(MatchingIds)
    IN {Absent} \cup {<<n>> : n \in (IF m = 0 THEN 1 ELSE m)..MaxPosts}

(* C3 as stated: after a traversal of a fixed set of posts, the pages
   concatenated in call order equal the items of a single list call with a
   limit that covers all matching posts, with no duplicate and no omission. *)
C3_PagesInCallOrderEqualSingleCall ==
    trav.status = "done" =>
        /\ \A l \in CoveringLimits : Flatten(trav.pages) = SingleCall(l)
        /\ NoDuplicates(Flatten(trav.pages))
        /\ Range(Flatten(trav.pages)) = MatchingIds

(* C3 amended: after a traversal of a fixed set of posts, the pages
   concatenated in reverse call order (last page first) equal the items of a
   single list call with a limit that covers all matching posts; no post is
   on two pages and no matching post is missing. *)
C3_PagesInReverseCallOrderEqualSingleCall ==
    trav.status = "done" =>
        /\ \A l \in CoveringLimits : Flatten(Reverse(trav.pages)) = SingleCall(l)
        /\ NoDuplicates(Flatten(trav.pages))
        /\ Range(Flatten(trav.pages)) = MatchingIds

C3_Witness ==
    /\ trav.status = "done"
    /\ Len(trav.pages) >= 2
    /\ trav.filter # "all"
    /\ MatchingIds # DOMAIN posts

(* C4: a traversal of a fixed set of posts reaches a response with no
   nextCursor, and every call that returns a nextCursor moves the cursor
   strictly forward in the requested order. *)
C4_TraversalTerminates ==
    /\ [][(trav.status = "running" /\ trav'.status = "running") =>
            IF trav.order = "asc"
            THEN posts[trav'.cursor[1]].createdAt > posts[trav.cursor[1]].createdAt
            ELSE posts[trav'.cursor[1]].createdAt < posts[trav.cursor[1]].createdAt]_vars
    /\ (trav.status = "running") ~> (trav.status = "done")

C4_Witness ==
    /\ trav.status = "done"
    /\ Len(trav.pages) >= 3

(* C5: the store never holds two ReadMarkers of one (user, post) pair,
   whatever the interleaving of setRead requests; and a setRead whose pair
   had a marker when the request looked it up succeeds and leaves the
   markers as they were. *)
C5_OneMarkerPerPair ==
    /\ \A r \in BagToSet(readPosts) : CopiesIn(r, readPosts) = 1
    /\ (resp.op = "setRead" /\ resp.found) => (resp.ok /\ readPosts = resp.before)

(* Two requests for one pair raced: this one found no marker, and the pair
   had one by the time it wrote. *)
C5_Witness ==
    /\ resp.op = "setRead"
    /\ ~resp.found
    /\ HasMarker(resp.before, resp.user, resp.id)
    /\ \E r \in BagToSet(inflight) : r.userId = resp.user /\ r.postId = resp.id /\ r.found

(* C6: list by user U with no cursor and a limit that covers all posts
   returns exactly the posts that satisfy the filter's predicate for U, each
   once. *)
C6_FilterSelects ==
    resp.op = "list" =>
        /\ {rec.id : rec \in Range(resp.items)} =
               {i \in DOMAIN posts : Matches(resp.filter, resp.user, i)}
        /\ NoDuplicates(ItemIds(resp.items))

(* U has read one post and not the other; the other user has read the post
   U has not. *)
C6_Witness ==
    /\ resp.op = "list"
    /\ resp.filter = "unread"
    /\ Len(posts) = 2
    /\ \E a, b \in DOMAIN posts :
          /\ HasMarker(readPosts, resp.user, a)
          /\ ~HasMarker(readPosts, resp.user, b)
          /\ \E v \in Users \ {resp.user} : HasMarker(readPosts, v, b)
          /\ ItemIds(resp.items) = <<b>>

HiddenIds == {i \in DOMAIN posts : posts[i].hidden}

(* C7: unreadCount returns totalCount = the number of posts that are not
   hidden and unreadCount = totalCount minus the number of U's ReadMarkers
   its count query saw, unclamped; when no marker of U was written between
   its two queries that is totalCount minus the number of U's ReadMarkers,
   and when moreover none of U's markers is on a hidden post it is the
   number of visible posts U has no marker on. *)
C7_UnreadCount ==
    resp.op = "unreadCount" =>
        /\ resp.totalCount = Len(posts) - Cardinality(HiddenIds)
        /\ resp.unreadCount = resp.totalCount - resp.seen
        /\ resp.seen = Cardinality(MarkersOf(resp.user)) =>
              /\ resp.unreadCount = resp.totalCount - Cardinality(MarkersOf(resp.user))
              /\ (\A r \in MarkersOf(resp.user) : r.postId \notin HiddenIds) =>
                    resp.unreadCount =
                       Cardinality({i \in DOMAIN posts \ HiddenIds :
                                       MarkerRow(resp.user, i) \notin MarkersOf(resp.user)})

(* U has more markers than there are visible posts: the result is negative. *)
C7_Witness ==
    /\ resp.op = "unreadCount"
    /\ resp.seen = Cardinality(MarkersOf(resp.user))
    /\ \E r \in MarkersOf(resp.user) : r.postId \in HiddenIds
    /\ resp.unreadCount < 0

(* C8: byId fails with NOT_FOUND exactly when no post has the id and
   otherwise returns that post; setRead for an id that references no post
   fails and leaves the markers as they were; every ReadMarker references an
   existing post. *)
C8_MissingPost ==
    /\ resp.op = "byId" =>
          /\ resp.ok <=> PostExists(resp.id)
          /\ resp.ok => resp.post.id = resp.id
          /\ ~resp.ok => resp.error = "NOT_FOUND"
    /\ (resp.op = "setRead" /\ ~PostExists(resp.id)) =>
          (~resp.ok /\ readPosts = resp.before)
    /\ \A r \in BagToSet(readPosts) : PostExists(r.postId)

C8_Witness ==
    /\ resp.op = "setRead"
    /\ ~PostExists(resp.id)
    /\ ~resp.ok
    /\ readPosts # EmptyBag

(* C9: for one list call with limit L (50 when absent) and F the matching
   records in creation-time order from the cursor: at most L items are
   returned; nextCursor is present exactly when F has more than L records and
   is then the id of F's record L+1, which is not returned; the items are the
   first min(L, |F|) records of F in reverse order. *)
C9_SinglePage ==
    resp.op = "list" =>
        LET L == IF resp.limit = Absent THEN 50 ELSE resp.limit[1]
            F == ItemIds(findMany(resp.filter, resp.user, resp.order, resp.cursor,
                                  Len(posts) + 1))
            ids == ItemIds(resp.items)
        IN /\ Len(ids) <= L
           /\ (resp.nextCursor # Absent) <=> (Len(F) > L)
           /\ Len(F) > L => (resp.nextCursor = <<F[L + 1]>> /\ F[L + 1] \notin Range(ids))
           /\ ids = Reverse(SubSeq(F, 1, IF L < Len(F) THEN L ELSE Len(F)))

C9_Witness ==
    /\ resp.op = "list"
    /\ resp.cursor # Absent
    /\ resp.nextCursor # Absent
    /\ resp.filter = "draft"
    /\ Len(resp.items) >= 2

(* C10: while posts are added between the calls of a traversal with filter
   all, no post is on two pages, and when the traversal ends every post that
   existed when it started is on some page. *)
C10_TraversalUnderAdds ==
    trav.status \in {"running", "done"} =>
        /\ NoDuplicates(Flatten(trav.pages))
        /\ trav.status = "done" => trav.initial \subseteq Range(Flatten(trav.pages))

(* A post was added between the first and the last call of a newest-first
   traversal of at least two pages. *)
C10_Witness ==
    /\ trav.status = "done"
    /\ trav.order = "desc"
    /\ Len(trav.pages) >= 2
    /\ Cardinality(trav.initial) >= 2
    /\ trav.sizes[Len(trav.sizes)] > trav.sizes[1]

====
